---- MODULE Spec2Model ----
(***************************************************************************)
(* Model of the connection core of the AMQP 0-9-1 client                   *)
(* (amqp-client/src/api/connection.rs): the handshake driven by            *)
(* Connection::open, and the reader and writer loops started by            *)
(* Connection::spawn_connection_handlers, together with the caller tasks   *)
(* and the broker they talk to.                                            *)
(*                                                                         *)
(* Time is discrete, one tick per second: heartbeat_interval is a number   *)
(* of seconds in the source (Duration::from_secs, as_secs).                *)
(***************************************************************************)
EXTENDS Integers, Sequences, FiniteSets, TLC

\* ------------------------------------------------------------------ bounds
\* Largest value of a tuning argument (channel-max, frame-max, heartbeat).
MaxArg == 2
\* Largest heartbeat_interval, in seconds, of a spawned connection.
MaxHeartbeat == 1

\* Channels opened by create_channel (ids 1..MaxChannels).
MaxChannels == 1
\* Synchronous calls a caller task makes on its channel, Channel.Open included.
MaxCalls == 2
\* Largest body_size of a Content-Header, and longest Content-Body payload.
MaxBody == 2
\* Frames the broker sends after the handshake.
MaxInbound == 4
\* Frames the broker sends to a connection that is being closed.
MaxCloseInbound == 2
\* Fields of a method record given to amqp_method.
MaxFields == 2

ArgValues == 0..MaxArg
ChannelIds == 1..MaxChannels
Bytes == {"a", "b"}
BodyChunks == UNION {[1..n -> Bytes] : n \in 1..MaxBody}
Subscribers == {"reader", "writer"}

\* ------------------------------------------------------------------ state
VARIABLES
  arguments,     \* Connection.arguments: the client's ConnectionArgs
  hsPc,          \* position of Connection::open / Connection::handshake
  hsTrace,       \* socket operations of the handshake, in order
  srvTune,       \* the values of the Connection.Tune that was read
  tuneOkSent,    \* the values written in Connection.Tune-Ok
  openResult,    \* what Connection::open returned
  hsStage,       \* the read step at which the handshake failed
  readerPc,      \* the reader task: unspawned, running, exited, panicked
  writerPc,      \* the writer task: unspawned, running, exited
  readerFault,   \* the unwrap or todo! the reader task panicked at
  closeRx,       \* close broadcast: values not yet received, per subscriber
  livenessClose, \* the reader published close from its liveness check
  commandQ,      \* command mailbox (command_tx -> command_rx)
  ackSlot,       \* per caller: the acker one-shot of its command
  outgoing,      \* outbound mailbox (message_tx -> outgoing_rx)
  channels,      \* ChannelManager: channels with a registered mailbox
  responders,    \* ChannelManager: channels with a responder installed
  replySlot,     \* per caller: the receiving half of its responder
  pending_frames,\* reader: content assembly in flight, per channel
  delivered,     \* bodies handed to dispatch_content_frame, per channel
  contentLog,    \* content frames ingested since the last Basic.Deliver
  cPc,           \* per caller task: its position
  callsStarted,  \* per caller: synchronous calls begun
  replies,       \* per caller: calls that returned a reply frame
  errors,        \* per caller: calls that returned an error
  registered,    \* per caller: the reader installed this call's responder
  srvOwed,       \* channels whose request is on the socket, reply not sent
  lostReply,     \* a reply reached the reader and found no responder
  lastWrite,     \* the frame the writer wrote last
  heartbeatsSent,\* the writer has emitted a Heartbeat frame
  srvLeft,       \* frames the broker may still send
  rTimer,        \* seconds left of the reader's timeout_delay
  wTimer,        \* seconds left of the writer's heartbeat_delay
  silence,       \* whole seconds since last_heartbeat (saturating)
  sinceWrite,    \* whole seconds since the writer's last write (saturating)
  closeResult,   \* what Connection::close did: none, ok, panicked
  srvCloseOk,    \* the broker's Connection.Close-Ok: none, owed, sent
  defaultMailbox,\* frames dispatched to the default channel (channel 0)
  handlerClose,  \* the default channel published close
  unwritten,     \* envelopes were dropped with outgoing_rx, never written
  ioFault,       \* the socket operation that failed: none, read, write
  replaced,      \* per channel: a Basic.Deliver overwrote an assembly
  otherLog,      \* per channel: method frames taken by the reader's `_` arm
  channelMailbox,\* per channel: frames the reader routed to its mailbox
  codec          \* a generated method record, its encoding and decoding

hsVars == <<arguments, hsPc, hsTrace, srvTune, tuneOkSent, openResult, hsStage>>
taskVars == <<readerPc, writerPc>>
readerVars ==
  <<readerFault, livenessClose, channels, responders, pending_frames,
    delivered, contentLog, lostReply, srvLeft>>
callerVars == <<cPc, callsStarted, replies, errors, registered>>
mailboxVars == <<commandQ, ackSlot, outgoing, replySlot, closeRx>>
writerVars == <<srvOwed, lastWrite, heartbeatsSent>>
timeVars == <<rTimer, wTimer, silence, sinceWrite>>
closeVars ==
  <<closeResult, srvCloseOk, defaultMailbox, handlerClose, unwritten>>
routeVars == <<ioFault, replaced, otherLog, channelMailbox>>
extVars == <<closeVars, routeVars, codec>>
muxVars ==
  <<readerVars, callerVars, mailboxVars, writerVars, timeVars, extVars>>
loopVars == <<taskVars, muxVars>>
vars == <<hsVars, loopVars>>

Ev(op, frame) == [op |-> op, frame |-> frame]

NoTune == [chan_max |-> -1, frame_max |-> -1, heartbeat |-> -1]

\* Method frames the broker may send while the handshake reads.
HandshakeFrames ==
  {"ConnectionStart", "ConnectionTune", "ConnectionOpenOk", "ConnectionClose"}

TuneRecords == [chan_max : ArgValues, frame_max : ArgValues, heartbeat : ArgValues]

ArgRecords ==
  [max_channels : ArgValues, max_frame_size : ArgValues,
   heartbeat_interval : ArgValues]

NoAssembly == [state |-> "None", size |-> 0, body |-> <<>>]
NoLog ==
  [deliver |-> FALSE, header |-> -1, bytes |-> <<>>, bodies |-> 0,
   dispatches |-> 0]
NoWrite == [channel |-> 0, frame |-> "None"]
NoCodec ==
  [pc |-> "none", fields |-> <<>>, record |-> <<>>, data |-> <<>>,
   decoded |-> <<>>]

\* Nothing closed, failed or routed yet.
NothingYet ==
  /\ closeResult = "none"
  /\ srvCloseOk = "none"
  /\ defaultMailbox = <<>>
  /\ handlerClose = FALSE
  /\ unwritten = FALSE
  /\ ioFault = "none"
  /\ replaced = [c \in ChannelIds |-> FALSE]
  /\ otherLog = [c \in ChannelIds |-> <<>>]
  /\ channelMailbox = [c \in ChannelIds |-> <<>>]

\* mpsc::unbounded_channel() twice and broadcast::channel(1) in open, the
\* fields of a new Connection, and no task, manager or caller yet.
MailboxesCreated ==
  /\ readerFault = "none"
  /\ closeRx = [s \in Subscribers |-> 0]
  /\ livenessClose = FALSE
  /\ commandQ = <<>>
  /\ ackSlot = [c \in ChannelIds |-> "none"]
  /\ outgoing = <<>>
  /\ channels = {}
  /\ responders = {}
  /\ replySlot = [c \in ChannelIds |-> "none"]
  /\ pending_frames = [c \in ChannelIds |-> NoAssembly]
  /\ delivered = [c \in ChannelIds |-> <<>>]
  /\ contentLog = [c \in ChannelIds |-> NoLog]
  /\ cPc = [c \in ChannelIds |-> "idle"]
  /\ callsStarted = [c \in ChannelIds |-> 0]
  /\ replies = [c \in ChannelIds |-> 0]
  /\ errors = [c \in ChannelIds |-> 0]
  /\ registered = [c \in ChannelIds |-> FALSE]
  /\ srvOwed = {}
  /\ lostReply = FALSE
  /\ lastWrite = NoWrite
  /\ heartbeatsSent = FALSE
  /\ srvLeft = MaxInbound
  /\ silence = 0
  /\ sinceWrite = 0
  /\ NothingYet

\* ------------------------------------------------------------ the handshake
\* Connection::open up to the call of handshake: nothing is written, nothing
\* is spawned.
HandshakeInit ==
  /\ arguments \in ArgRecords
  /\ hsPc = "writeHeader"
  /\ hsTrace = <<>>
  /\ srvTune = NoTune
  /\ tuneOkSent = NoTune
  /\ openResult = "pending"
  /\ hsStage = "none"
  /\ readerPc = "unspawned"
  /\ writerPc = "unspawned"
  /\ MailboxesCreated
  /\ rTimer = 0
  /\ wTimer = 0
  /\ codec = NoCodec

\* writer.write_binary(&PROTOCOL_HEADER)
HsWriteHeader ==
  /\ hsPc = "writeHeader"
  /\ hsTrace' = Append(hsTrace, Ev("write", "ProtocolHeader"))
  /\ hsPc' = "readStart"
  /\ UNCHANGED <<arguments, srvTune, tuneOkSent, openResult, hsStage, loopVars>>

\* unwrap_frame_variant!(frame, <expected>): the frame's method when it is the
\* expected variant, HandshakeFailed(stage) otherwise.
UnwrapFrameVariant(frame, expected, stage, next) ==
  IF frame = expected
    THEN /\ hsPc' = next
         /\ UNCHANGED <<openResult, hsStage>>
    ELSE /\ hsPc' = "failed"
         /\ openResult' = "HandshakeFailed"
         /\ hsStage' = stage

\* reader.next_frame().await? of a handshake read step: the `?` returns the
\* socket's error from handshake, and open's `?` returns it from open.
HsReadIoError(at) ==
  /\ hsPc = at
  /\ hsTrace' = Append(hsTrace, Ev("read", "IoError"))
  /\ hsPc' = "failed"
  /\ openResult' = "Io"
  /\ UNCHANGED <<arguments, srvTune, tuneOkSent, hsStage, loopVars>>

\* let (_, frame) = reader.next_frame().await?; unwrap ConnectionStart
HsReadStart ==
  /\ hsPc = "readStart"
  /\ \E frame \in HandshakeFrames :
       /\ hsTrace' = Append(hsTrace, Ev("read", frame))
       /\ UnwrapFrameVariant(frame, "ConnectionStart", "Start", "writeStartOk")
  /\ UNCHANGED <<arguments, srvTune, tuneOkSent, loopVars>>

\* writer.dispatch(0, start_ok_method.into_frame())
HsWriteStartOk ==
  /\ hsPc = "writeStartOk"
  /\ hsTrace' = Append(hsTrace, Ev("write", "ConnectionStartOk"))
  /\ hsPc' = "readTune"
  /\ UNCHANGED <<arguments, srvTune, tuneOkSent, openResult, hsStage, loopVars>>

\* let (_, frame) = reader.next_frame().await?; unwrap ConnectionTune.  The
\* method is bound to _tune_method and not read again.
HsReadTune ==
  /\ hsPc = "readTune"
  /\ \E frame \in HandshakeFrames :
       /\ hsTrace' = Append(hsTrace, Ev("read", frame))
       /\ UnwrapFrameVariant(frame, "ConnectionTune", "Tune", "writeTuneOk")
       /\ IF frame = "ConnectionTune"
            THEN srvTune' \in TuneRecords
            ELSE srvTune' = srvTune
  /\ UNCHANGED <<arguments, tuneOkSent, loopVars>>

\* The ConnectionTuneOk of the handshake: its three fields.
TuneOkMethod ==
  [chan_max |-> arguments.max_channels,
   frame_max |-> arguments.max_frame_size,
   heartbeat |-> arguments.heartbeat_interval]

\* writer.dispatch(0, tune_ok_method.into_frame())
HsWriteTuneOk ==
  /\ hsPc = "writeTuneOk"
  /\ hsTrace' = Append(hsTrace, Ev("write", "ConnectionTuneOk"))
  /\ tuneOkSent' = TuneOkMethod
  /\ hsPc' = "writeOpen"
  /\ UNCHANGED <<arguments, srvTune, openResult, hsStage, loopVars>>

\* writer.dispatch(0, open_method.into_frame())
HsWriteOpen ==
  /\ hsPc = "writeOpen"
  /\ hsTrace' = Append(hsTrace, Ev("write", "ConnectionOpen"))
  /\ hsPc' = "readOpenOk"
  /\ UNCHANGED <<arguments, srvTune, tuneOkSent, openResult, hsStage, loopVars>>

\* let (_, frame) = reader.next_frame().await?; unwrap ConnectionOpenOk; Ok(())
HsReadOpenOk ==
  /\ hsPc = "readOpenOk"
  /\ \E frame \in HandshakeFrames :
       /\ hsTrace' = Append(hsTrace, Ev("read", frame))
       /\ UnwrapFrameVariant(frame, "ConnectionOpenOk", "OpenOk", "handshakeOk")
  /\ UNCHANGED <<arguments, srvTune, tuneOkSent, loopVars>>

HsReadFails ==
  \E at \in {"readStart", "readTune", "readOpenOk"} : HsReadIoError(at)

SpawnBeforeOpenOk == hsPc \in {"handshakeOk", "readOpenOk"}

SpawnAfterFailureToo == hsPc \in {"handshakeOk", "failed"}

\* connection.handshake(..).await?: open goes on to spawn only when the
\* handshake returned Ok.
HandshakeReturnedOk == hsPc = "handshakeOk"

\* connection.spawn_connection_handlers(..); Ok(connection)
OpenSpawn ==
  /\ HandshakeReturnedOk
  /\ readerPc = "unspawned"
  /\ readerPc' = "running"
  /\ writerPc' = "running"
  /\ hsPc' = IF hsPc = "handshakeOk" THEN "spawned" ELSE hsPc
  /\ openResult' = IF hsPc = "handshakeOk" THEN "ok" ELSE openResult
  /\ channels' = {0}
  /\ rTimer' = arguments.heartbeat_interval
  /\ wTimer' = arguments.heartbeat_interval
  /\ UNCHANGED <<arguments, hsTrace, srvTune, tuneOkSent, hsStage>>
  /\ UNCHANGED <<readerFault, livenessClose, responders, pending_frames,
                 delivered, contentLog, lostReply, srvLeft>>
  /\ UNCHANGED <<callerVars, mailboxVars, writerVars, silence, sinceWrite>>
  /\ UNCHANGED extVars

HandshakeNext ==
  \/ HsWriteHeader
  \/ HsReadStart
  \/ HsWriteStartOk
  \/ HsReadTune
  \/ HsWriteTuneOk
  \/ HsWriteOpen
  \/ HsReadOpenOk
  \/ HsReadFails
  \/ OpenSpawn

HandshakeSpec == HandshakeInit /\ [][HandshakeNext]_vars

\* ------------------------------------------------- the spawned connection
heartbeat_interval == arguments.heartbeat_interval

\* Duration::from_secs(heartbeat_interval as u64) of timeout_delay.
TimeoutDelay == heartbeat_interval

HeartbeatDelayDoubled == heartbeat_interval * 2

\* Duration::from_secs(heartbeat_interval as u64) of heartbeat_delay.
HeartbeatDelay == heartbeat_interval

Min(a, b) == IF a < b THEN a ELSE b

\* The handshake of a connection that open returned.
CompletedHandshake ==
  <<Ev("write", "ProtocolHeader"), Ev("read", "ConnectionStart"),
    Ev("write", "ConnectionStartOk"), Ev("read", "ConnectionTune"),
    Ev("write", "ConnectionTuneOk"), Ev("write", "ConnectionOpen"),
    Ev("read", "ConnectionOpenOk")>>

\* The state in which Connection::open returns Ok(connection): the handshake
\* is done and both loops are spawned; heartbeat_interval is one of
\* heartbeats, and the broker has inbound frames to send.
Opened(heartbeats, inbound) ==
  /\ arguments \in
       {[max_channels |-> MaxArg, max_frame_size |-> MaxArg,
         heartbeat_interval |-> h] : h \in heartbeats}
  /\ hsPc = "spawned"
  /\ hsTrace = CompletedHandshake
  /\ srvTune = TuneOkMethod
  /\ tuneOkSent = TuneOkMethod
  /\ openResult = "ok"
  /\ hsStage = "none"
  /\ readerPc = "running"
  /\ writerPc = "running"
  /\ readerFault = "none"
  /\ closeRx = [s \in Subscribers |-> 0]
  /\ livenessClose = FALSE
  /\ commandQ = <<>>
  /\ ackSlot = [c \in ChannelIds |-> "none"]
  /\ outgoing = <<>>
  /\ channels = {0}
  /\ responders = {}
  /\ replySlot = [c \in ChannelIds |-> "none"]
  /\ pending_frames = [c \in ChannelIds |-> NoAssembly]
  /\ delivered = [c \in ChannelIds |-> <<>>]
  /\ contentLog = [c \in ChannelIds |-> NoLog]
  /\ cPc = [c \in ChannelIds |-> "idle"]
  /\ callsStarted = [c \in ChannelIds |-> 0]
  /\ replies = [c \in ChannelIds |-> 0]
  /\ errors = [c \in ChannelIds |-> 0]
  /\ registered = [c \in ChannelIds |-> FALSE]
  /\ srvOwed = {}
  /\ lostReply = FALSE
  /\ lastWrite = NoWrite
  /\ heartbeatsSent = FALSE
  /\ srvLeft = inbound
  /\ rTimer = TimeoutDelay
  /\ wTimer = HeartbeatDelay
  /\ silence = 0
  /\ sinceWrite = 0
  /\ NothingYet
  /\ codec = NoCodec

Init == Opened(0..MaxHeartbeat, MaxInbound)

\* close_tx.send(()): every live subscriber gets the value; the channel holds
\* one value (broadcast::channel(1)), a second one unread makes the
\* subscriber lag (2).
PublishClose ==
  closeRx' =
    [s \in Subscribers |->
       IF (s = "reader" /\ readerPc = "running")
          \/ (s = "writer" /\ writerPc = "running")
         THEN Min(closeRx[s] + 1, 2)
         ELSE closeRx[s]]

ReaderTaskKeepsManager(pc, fault) ==
  /\ readerPc' = pc
  /\ readerFault' = fault
  /\ closeRx' = [closeRx EXCEPT !["reader"] = 0]
  /\ UNCHANGED <<commandQ, ackSlot, replySlot, responders, channels,
                 pending_frames>>

\* The reader task ends (the loop breaks, or the task panics and its future
\* is dropped): command_rx, channel_manager, pending_frames and close_rx, all
\* moved into the task, are dropped.  Dropping a queued command drops its
\* acker, dropping a responder closes the caller's one-shot.
ReaderTaskEnds(pc, fault) ==
  /\ readerPc' = pc
  /\ readerFault' = fault
  /\ commandQ' = <<>>
  /\ ackSlot' =
       [c \in ChannelIds |->
          IF \E i \in 1..Len(commandQ) : commandQ[i].channel = c
            THEN "closed" ELSE ackSlot[c]]
  /\ replySlot' =
       [c \in ChannelIds |->
          IF \/ c \in responders
             \/ \E i \in 1..Len(commandQ) :
                  commandQ[i] = [type |-> "RegisterResponder", channel |-> c]
            THEN "closed" ELSE replySlot[c]]
  /\ responders' = {}
  /\ channels' = {}
  /\ pending_frames' = [c \in ChannelIds |-> NoAssembly]
  /\ closeRx' = [closeRx EXCEPT !["reader"] = 0]

\* ---- reader loop, command branch
ApplyCommandSkipped(cmd) ==
  UNCHANGED <<responders, channels, registered>>

\* match payload { RegisterResponder => register_responder,
\*                 RegisterChannel => register_channel, .. }
ApplyCommand(cmd) ==
  /\ responders' =
       IF cmd.type = "RegisterResponder"
         THEN responders \cup {cmd.channel} ELSE responders
  /\ registered' =
       IF cmd.type = "RegisterResponder"
         THEN [registered EXCEPT ![cmd.channel] = TRUE] ELSE registered
  /\ channels' =
       IF cmd.type = "RegisterChannel"
         THEN channels \cup {cmd.channel} ELSE channels

\* Some((payload, acker)) = command_rx.recv() => { ..; acker.send(()) }
ReaderCommand ==
  /\ readerPc = "running"
  /\ commandQ # <<>>
  /\ ApplyCommand(Head(commandQ))
  /\ ackSlot' = [ackSlot EXCEPT ![Head(commandQ).channel] = "acked"]
  /\ commandQ' = Tail(commandQ)
  /\ rTimer' = TimeoutDelay
  /\ UNCHANGED <<hsVars, taskVars, readerFault, livenessClose, pending_frames,
                 delivered, contentLog, lostReply, srvLeft, cPc, callsStarted,
                 replies, errors, outgoing, replySlot, closeRx, writerVars,
                 wTimer, silence, sinceWrite>>
  /\ UNCHANGED extVars

\* ---- reader loop, frame branch
\* Ok((channel, frame)) = reader.next_frame() => { last_heartbeat = now; ..
\* The broker may send a frame while it has frames left.
FrameArrives ==
  /\ readerPc = "running"
  /\ srvLeft > 0
  /\ srvLeft' = srvLeft - 1
  /\ silence' = 0
  /\ rTimer' = TimeoutDelay

\* Frame::Heartbeat => { info!(..) }
ReaderHeartbeat ==
  /\ FrameArrives
  /\ UNCHANGED <<hsVars, taskVars, readerFault, livenessClose, channels,
                 responders, pending_frames, delivered, contentLog, lostReply,
                 callerVars, mailboxVars, writerVars, wTimer, sinceWrite>>
  /\ UNCHANGED extVars

\* ContentFrame::with_content_header
WithContentHeader(pf, size) ==
  [state |-> "WithHeader", size |-> size, body |-> pf.body]

WithBodyPrepended(pf, chunk) ==
  [pf EXCEPT !.body = chunk \o pf.body]

\* ContentFrame::with_body
WithBody(pf, chunk) ==
  [pf EXCEPT !.body = pf.body \o chunk]

\* ContentFrame::is_complete
IsComplete(pf) ==
  pf.state = "WithHeader" /\ Len(pf.body) = pf.size

\* Frame::BasicDeliver(..) => pending_frames.insert(channel, WithMethod(frame))
ReaderBasicDeliver ==
  /\ FrameArrives
  /\ \E channel \in ChannelIds :
       /\ pending_frames' =
            [pending_frames EXCEPT
               ![channel] = [state |-> "WithMethod", size |-> 0, body |-> <<>>]]
       /\ contentLog' =
            [contentLog EXCEPT
               ![channel] = [deliver |-> TRUE, header |-> -1, bytes |-> <<>>,
                             bodies |-> 0, dispatches |-> 0]]
       /\ replaced' =
            [replaced EXCEPT
               ![channel] = @ \/ pending_frames[channel].state # "None"]
  /\ UNCHANGED <<hsVars, taskVars, readerFault, livenessClose, channels,
                 responders, delivered, lostReply, callerVars, mailboxVars,
                 writerVars, wTimer, sinceWrite>>
  /\ UNCHANGED <<closeVars, ioFault, otherLog, channelMailbox, codec>>

\* Frame::ContentHeader(..) => {
\*   let pending_frame = pending_frames.remove(&channel).unwrap();
\*   pending_frames.insert(channel, pending_frame.with_content_header(..)) }
\* The broker sends a header after a content-bearing method, or an orphan one.
ReaderContentHeader ==
  /\ FrameArrives
  /\ \E channel \in ChannelIds, body_size \in 0..MaxBody :
       /\ pending_frames[channel].state \in {"None", "WithMethod"}
       /\ IF pending_frames[channel].state = "None"
            THEN /\ ReaderTaskEnds("panicked", "unwrap_pending_frame")
                 /\ UNCHANGED contentLog
            ELSE /\ pending_frames' =
                      [pending_frames EXCEPT
                         ![channel] =
                            WithContentHeader(pending_frames[channel], body_size)]
                 /\ contentLog' =
                      [contentLog EXCEPT ![channel].header = body_size]
                 /\ UNCHANGED <<readerPc, readerFault, commandQ, ackSlot,
                                replySlot, responders, channels, closeRx>>
  /\ UNCHANGED <<hsVars, writerPc, livenessClose, delivered, lostReply,
                 callerVars, outgoing, writerVars, wTimer, sinceWrite>>
  /\ UNCHANGED extVars

DispatchAlways(channel, pf) ==
  /\ pending_frames' = [pending_frames EXCEPT ![channel] = NoAssembly]
  /\ delivered' = [delivered EXCEPT ![channel] = Append(@, pf.body)]

\* if pending_frame.is_complete() {
\*   channel_manager.dispatch_content_frame(channel, outgoing_tx, pending_frame)
\* } else { pending_frames.insert(channel, pending_frame) }
\* after pending_frames.remove(&channel)
DispatchOrKeep(channel, pf) ==
  IF IsComplete(pf)
    THEN /\ pending_frames' = [pending_frames EXCEPT ![channel] = NoAssembly]
         /\ delivered' = [delivered EXCEPT ![channel] = Append(@, pf.body)]
    ELSE /\ pending_frames' = [pending_frames EXCEPT ![channel] = pf]
         /\ UNCHANGED delivered

\* Frame::ContentBody(..) => {
\*   let mut pending_frame = pending_frames.remove(&channel).unwrap();
\*   pending_frame = pending_frame.with_body(content_body);
\*   <dispatch or keep> }
\* The broker sends a body after a header, or an orphan one.
ReaderContentBody ==
  /\ FrameArrives
  /\ \E channel \in ChannelIds, chunk \in BodyChunks :
       /\ pending_frames[channel].state \in {"None", "WithHeader"}
       /\ IF pending_frames[channel].state = "None"
            THEN /\ ReaderTaskEnds("panicked", "unwrap_pending_frame")
                 /\ UNCHANGED <<contentLog, delivered>>
            ELSE /\ DispatchOrKeep(channel,
                                   WithBody(pending_frames[channel], chunk))
                 /\ contentLog' =
                      [contentLog EXCEPT
                         ![channel].bytes = @ \o chunk,
                         ![channel].bodies = @ + 1,
                         ![channel].dispatches =
                            @ + Len(delivered'[channel])
                              - Len(delivered[channel])]
                 /\ UNCHANGED <<readerPc, readerFault, commandQ, ackSlot,
                                replySlot, responders, channels, closeRx>>
  /\ UNCHANGED <<hsVars, writerPc, livenessClose, lostReply, callerVars,
                 outgoing, writerVars, wTimer, sinceWrite>>
  /\ UNCHANGED extVars

\* Frame::ChannelOpenOk(..) | .. | Frame::BasicConsumeOk(..) =>
\*   channel_manager.get_responder(channel).send(frame).unwrap()
\* The broker answers a request it has read.  get_responder hands back the
\* sender itself, so a channel without one can only panic there.
ReaderReply ==
  /\ FrameArrives
  /\ \E channel \in srvOwed :
       /\ srvOwed' = srvOwed \ {channel}
       /\ IF channel \in responders
            THEN /\ responders' = responders \ {channel}
                 /\ replySlot' = [replySlot EXCEPT ![channel] = "frame"]
                 /\ UNCHANGED <<readerPc, readerFault, commandQ, ackSlot,
                                channels, pending_frames, closeRx, lostReply>>
            ELSE /\ lostReply' = TRUE
                 /\ ReaderTaskEnds("panicked", "get_responder")
  /\ UNCHANGED <<hsVars, writerPc, livenessClose, delivered, contentLog,
                 callerVars, outgoing, lastWrite, heartbeatsSent, wTimer,
                 sinceWrite>>
  /\ UNCHANGED extVars

\* Method frames with no arm of their own in the reader's match.
OtherMethods == {"ChannelClose", "BasicCancel"}

\* _ => { if channel == 0 { dispatch_channel_frame(..) }
\*        else { todo!("handle frame {:?}", frame) } }
\* for a method frame on a channel other than 0.
ReaderOtherFrame ==
  /\ FrameArrives
  /\ \E channel \in ChannelIds, frame \in OtherMethods :
       /\ otherLog' = [otherLog EXCEPT ![channel] = Append(@, frame)]
       /\ ReaderTaskEnds("panicked", "todo")
  /\ UNCHANGED <<hsVars, writerPc, livenessClose, delivered, contentLog,
                 lostReply, callerVars, outgoing, writerVars, wTimer,
                 sinceWrite>>
  /\ UNCHANGED <<closeVars, ioFault, replaced, channelMailbox, codec>>

\* ---- reader loop, timer and close branches
\* SystemTime::now().duration_since(last_heartbeat).unwrap().as_secs()
\*   > heartbeat_interval as u64 * 2
LivenessLost == silence > heartbeat_interval * 2

ReaderTimeoutLogsOnly ==
  /\ readerPc = "running"
  /\ rTimer = 0
  /\ rTimer' = TimeoutDelay
  /\ UNCHANGED <<hsVars, taskVars, readerVars, callerVars, mailboxVars,
                 writerVars, wTimer, silence, sinceWrite>>
  /\ UNCHANGED extVars

\* _ = timeout_delay => { if <liveness lost> { close_tx.send(()).unwrap() } }
ReaderTimeout ==
  /\ readerPc = "running"
  /\ rTimer = 0
  /\ IF LivenessLost
       THEN /\ PublishClose
            /\ livenessClose' = TRUE
       ELSE UNCHANGED <<closeRx, livenessClose>>
  /\ rTimer' = TimeoutDelay
  /\ UNCHANGED <<hsVars, taskVars, readerFault, channels, responders,
                 pending_frames, delivered, contentLog, lostReply, srvLeft,
                 callerVars, commandQ, ackSlot, outgoing, replySlot,
                 writerVars, wTimer, silence, sinceWrite>>
  /\ UNCHANGED extVars

\* _ = close_rx.recv() => { break; }   and the end of the task
ReaderOnClose ==
  /\ readerPc = "running"
  /\ closeRx["reader"] > 0
  /\ ReaderTaskEnds("exited", readerFault)
  /\ UNCHANGED <<hsVars, writerPc, livenessClose, delivered, contentLog,
                 lostReply, srvLeft, callerVars, outgoing, writerVars,
                 timeVars>>
  /\ UNCHANGED extVars

\* ---- writer loop
Requests == {"ChannelOpen", "Method"}

\* Some((channel, frame)) = outgoing_rx.recv() =>
\*   writer.dispatch(channel, frame).await.unwrap()
WriterOutgoing ==
  /\ writerPc = "running"
  /\ outgoing # <<>>
  /\ lastWrite' = Head(outgoing)
  /\ srvOwed' =
       IF Head(outgoing).frame \in Requests
         THEN srvOwed \cup {Head(outgoing).channel} ELSE srvOwed
  /\ srvCloseOk' =
       IF Head(outgoing).frame = "ConnectionClose" /\ srvCloseOk = "none"
         THEN "owed" ELSE srvCloseOk
  /\ outgoing' = Tail(outgoing)
  /\ sinceWrite' = 0
  /\ wTimer' = HeartbeatDelay
  /\ UNCHANGED <<hsVars, taskVars, readerVars, callerVars, commandQ, ackSlot,
                 replySlot, closeRx, heartbeatsSent, rTimer, silence>>
  /\ UNCHANGED <<closeResult, defaultMailbox, handlerClose, unwritten,
                 routeVars, codec>>

\* _ = heartbeat_delay => writer.dispatch(0, Frame::Heartbeat).await.unwrap()
WriterHeartbeat ==
  /\ writerPc = "running"
  /\ wTimer = 0
  /\ lastWrite' = [channel |-> 0, frame |-> "Heartbeat"]
  /\ heartbeatsSent' = TRUE
  /\ sinceWrite' = 0
  /\ wTimer' = HeartbeatDelay
  /\ UNCHANGED <<hsVars, taskVars, readerVars, callerVars, mailboxVars,
                 srvOwed, rTimer, silence>>
  /\ UNCHANGED extVars

\* _ = close_rx.recv() => { break; }   and the end of the task: outgoing_rx
\* and the socket writer are dropped with it.
WriterOnClose ==
  /\ writerPc = "running"
  /\ closeRx["writer"] > 0
  /\ writerPc' = "exited"
  /\ closeRx' = [closeRx EXCEPT !["writer"] = 0]
  /\ outgoing' = <<>>
  /\ unwritten' = (unwritten \/ outgoing # <<>>)
  /\ UNCHANGED <<hsVars, readerPc, readerVars, callerVars, commandQ, ackSlot,
                 replySlot, writerVars, timeVars>>
  /\ UNCHANGED <<closeResult, srvCloseOk, defaultMailbox, handlerClose,
                 routeVars, codec>>

\* ---- caller tasks
\* A call ends with an error: Err(..) is returned to the application.
CallFails(c) ==
  /\ cPc' = [cPc EXCEPT ![c] = "failed"]
  /\ errors' = [errors EXCEPT ![c] = @ + 1]

\* invoke_command_async!(command_tx, payload): the command and a fresh acker
\* go on the command mailbox; command_tx.send fails once command_rx is gone.
SendCommand(c, type, waiting) ==
  IF readerPc = "running"
    THEN /\ commandQ' = Append(commandQ, [type |-> type, channel |-> c])
         /\ ackSlot' = [ackSlot EXCEPT ![c] = "none"]
         /\ cPc' = [cPc EXCEPT ![c] = waiting]
         /\ UNCHANGED errors
    ELSE /\ CallFails(c)
         /\ UNCHANGED <<commandQ, ackSlot>>

\* IdAllocator::allocate: the ids 1, 2, .. in turn; create_channel takes
\* &mut self, so one create_channel runs at a time.
Allocate(c) ==
  \A d \in ChannelIds : d < c => replies[d] + errors[d] > 0

\* create_channel: id_allocator.allocate();
\* invoke_command_async!(command_tx, RegisterChannel((id, channel_tx)))
CreateChannel(c) ==
  /\ openResult = "ok"
  /\ closeResult = "none"
  /\ cPc[c] = "idle"
  /\ Allocate(c)
  /\ callsStarted' = [callsStarted EXCEPT ![c] = 1]
  /\ SendCommand(c, "RegisterChannel", "awaitChannelAck")
  /\ UNCHANGED <<hsVars, taskVars, readerVars, replies, registered, outgoing,
                 replySlot, closeRx, writerVars, timeVars>>
  /\ UNCHANGED extVars

\* create_channel after the ack: AmqChannel::open(..).await?, whose
\* Channel.Open is a synchronous call: it first registers its responder.
OpenChannel(c) ==
  /\ cPc[c] = "awaitChannelAck"
  /\ ackSlot[c] # "none"
  /\ IF ackSlot[c] = "acked"
       THEN SendCommand(c, "RegisterResponder", "awaitOpenResponderAck")
       ELSE /\ CallFails(c)
            /\ UNCHANGED <<commandQ, ackSlot>>
  /\ registered' = [registered EXCEPT ![c] = FALSE]
  /\ replySlot' = [replySlot EXCEPT ![c] = "none"]
  /\ UNCHANGED <<hsVars, taskVars, readerVars, callsStarted, replies,
                 outgoing, closeRx, writerVars, timeVars>>
  /\ UNCHANGED extVars

\* invoke_sync_method!(channel, command_tx, message_tx, frame): a later call
\* on an open channel; it first registers its responder.
SyncCall(c) ==
  /\ cPc[c] = "ready"
  /\ callsStarted[c] < MaxCalls
  /\ callsStarted' = [callsStarted EXCEPT ![c] = @ + 1]
  /\ SendCommand(c, "RegisterResponder", "awaitResponderAck")
  /\ registered' = [registered EXCEPT ![c] = FALSE]
  /\ replySlot' = [replySlot EXCEPT ![c] = "none"]
  /\ UNCHANGED <<hsVars, taskVars, readerVars, replies, outgoing, closeRx,
                 writerVars, timeVars>>
  /\ UNCHANGED extVars

\* invoke_sync_method! after the ack: message_tx.send((channel, frame)), which
\* fails once outgoing_rx is gone.
EnqueueRequest(c) ==
  /\ cPc[c] \in {"awaitOpenResponderAck", "awaitResponderAck"}
  /\ ackSlot[c] # "none"
  /\ IF ackSlot[c] = "acked" /\ writerPc = "running"
       THEN /\ outgoing' =
                 Append(outgoing,
                        [channel |-> c,
                         frame |-> IF cPc[c] = "awaitOpenResponderAck"
                                     THEN "ChannelOpen" ELSE "Method"])
            /\ cPc' = [cPc EXCEPT ![c] = "awaitReply"]
            /\ UNCHANGED errors
       ELSE /\ CallFails(c)
            /\ UNCHANGED outgoing
  /\ ackSlot' = [ackSlot EXCEPT ![c] = "none"]
  /\ UNCHANGED <<hsVars, taskVars, readerVars, callsStarted, replies,
                 registered, commandQ, replySlot, closeRx, writerVars,
                 timeVars>>
  /\ UNCHANGED extVars

\* invoke_sync_method! awaiting its responder: the reply frame, or the error
\* of a one-shot whose sender was dropped.
CallReturns(c) ==
  /\ cPc[c] = "awaitReply"
  /\ replySlot[c] # "none"
  /\ IF replySlot[c] = "frame"
       THEN /\ cPc' = [cPc EXCEPT ![c] = "ready"]
            /\ replies' = [replies EXCEPT ![c] = @ + 1]
            /\ UNCHANGED errors
       ELSE /\ CallFails(c)
            /\ UNCHANGED replies
  /\ replySlot' = [replySlot EXCEPT ![c] = "none"]
  /\ UNCHANGED <<hsVars, taskVars, readerVars, callsStarted, registered,
                 commandQ, ackSlot, outgoing, closeRx, writerVars, timeVars>>
  /\ UNCHANGED extVars

Caller ==
  \E c \in ChannelIds :
    \/ CreateChannel(c)
    \/ OpenChannel(c)
    \/ SyncCall(c)
    \/ EnqueueRequest(c)
    \/ CallReturns(c)

\* ---- time
\* One second passes.  A sleep that has run out is taken before the next
\* second passes; a sleep of zero seconds (heartbeat_interval = 0) is ready at
\* once, and time passes between its turns.
Tick ==
  /\ readerPc = "running" \/ writerPc = "running"
  /\ readerPc = "running" => (rTimer > 0 \/ TimeoutDelay = 0)
  /\ writerPc = "running" => (wTimer > 0 \/ HeartbeatDelay = 0)
  /\ rTimer' = IF readerPc = "running" /\ rTimer > 0 THEN rTimer - 1 ELSE rTimer
  /\ wTimer' = IF writerPc = "running" /\ wTimer > 0 THEN wTimer - 1 ELSE wTimer
  /\ silence' =
       IF readerPc = "running"
         THEN Min(silence + 1, 2 * heartbeat_interval + 1) ELSE silence
  /\ sinceWrite' =
       IF writerPc = "running"
         THEN Min(sinceWrite + 1, heartbeat_interval + 1) ELSE sinceWrite
  /\ UNCHANGED <<hsVars, taskVars, readerVars, callerVars, mailboxVars,
                 writerVars>>
  /\ UNCHANGED extVars

Reader ==
  \/ ReaderCommand
  \/ ReaderHeartbeat
  \/ ReaderBasicDeliver
  \/ ReaderContentHeader
  \/ ReaderContentBody
  \/ ReaderReply
  \/ ReaderOtherFrame
  \/ ReaderTimeout
  \/ ReaderOnClose

Writer ==
  \/ WriterOutgoing
  \/ WriterHeartbeat
  \/ WriterOnClose

Next ==
  \/ Reader
  \/ Writer
  \/ Caller
  \/ Tick

Spec == Init /\ [][Next]_vars

\* The scheduling of the executor and of select!: a task that can run does
\* run, a branch that stays ready is taken, and time goes on.
Fairness ==
  /\ WF_vars(ReaderCommand)
  /\ WF_vars(ReaderTimeout)
  /\ WF_vars(ReaderOnClose)
  /\ WF_vars(WriterOutgoing)
  /\ WF_vars(WriterHeartbeat)
  /\ WF_vars(WriterOnClose)
  /\ WF_vars(Caller)
  /\ WF_vars(Tick)

FairSpec == Spec /\ Fairness

\* ------------------------------------------------------------------ close
CloseWithoutFrame ==
  /\ closeResult' = IF writerPc = "running" THEN "ok" ELSE "panicked"
  /\ UNCHANGED outgoing

\* let method = ConnectionClose { reply_code: 0, .. };
\* self.message_tx.send((0, method.into_frame())).unwrap();  Ok(())
\* The send fails, and unwrap panics, once outgoing_rx is gone.
SendConnectionClose ==
  IF writerPc = "running"
    THEN /\ outgoing' =
              Append(outgoing, [channel |-> 0, frame |-> "ConnectionClose"])
         /\ closeResult' = "ok"
    ELSE /\ closeResult' = "panicked"
         /\ UNCHANGED outgoing

\* Connection::close(self): it takes the connection by value, so it is called
\* once, on a connection that open returned.
Close ==
  /\ openResult = "ok"
  /\ closeResult = "none"
  /\ SendConnectionClose
  /\ UNCHANGED <<hsVars, taskVars, readerVars, callerVars, commandQ, ackSlot,
                 replySlot, closeRx, writerVars, timeVars>>
  /\ UNCHANGED <<srvCloseOk, defaultMailbox, handlerClose, unwritten,
                 routeVars, codec>>

\* Method frames the broker sends on channel 0 after the handshake:
\* Connection.Close-Ok once it has read the client's Connection.Close, or a
\* Connection.Close of its own.
ChannelZeroFrames ==
  {"ConnectionClose"}
    \cup (IF srvCloseOk = "owed" THEN {"ConnectionCloseOk"} ELSE {})

\* _ => { if channel == 0 {
\*          channel_manager.dispatch_channel_frame((channel, frame)).unwrap() }
\* The frame goes to the mailbox registered for the default channel.  The
\* broker sends nothing after either frame.
ReaderChannelZero ==
  /\ readerPc = "running"
  /\ srvLeft > 0
  /\ \E frame \in ChannelZeroFrames :
       /\ defaultMailbox' = Append(defaultMailbox, frame)
       /\ srvCloseOk' =
            IF frame = "ConnectionCloseOk" THEN "sent" ELSE srvCloseOk
  /\ srvLeft' = 0
  /\ silence' = 0
  /\ rTimer' = TimeoutDelay
  /\ UNCHANGED <<hsVars, taskVars, readerFault, livenessClose, channels,
                 responders, pending_frames, delivered, contentLog, lostReply,
                 callerVars, mailboxVars, writerVars, wTimer, sinceWrite>>
  /\ UNCHANGED <<closeResult, handlerClose, unwritten, routeVars, codec>>

\* The default channel's handler, holding message_tx.clone() and
\* close_tx.clone() (DefaultAmqChannel::open): on Connection.Close-Ok it
\* publishes close; on the broker's Connection.Close it answers Close-Ok and
\* publishes close.
DefaultChannelHandler ==
  /\ defaultMailbox # <<>>
  /\ defaultMailbox' = Tail(defaultMailbox)
  /\ outgoing' =
       IF Head(defaultMailbox) = "ConnectionClose" /\ writerPc = "running"
         THEN Append(outgoing, [channel |-> 0, frame |-> "ConnectionCloseOk"])
         ELSE outgoing
  /\ PublishClose
  /\ handlerClose' = TRUE
  /\ UNCHANGED <<hsVars, taskVars, readerVars, callerVars, commandQ, ackSlot,
                 replySlot, writerVars, timeVars>>
  /\ UNCHANGED <<closeResult, srvCloseOk, unwritten, routeVars, codec>>

CloseNext ==
  \/ Next
  \/ Close
  \/ ReaderChannelZero
  \/ DefaultChannelHandler

CloseInit == Opened(0..MaxHeartbeat, MaxCloseInbound)

CloseSpec == CloseInit /\ [][CloseNext]_vars

\* The default channel's handler is a task like the others: it runs when it
\* has a frame.
CloseFairSpec == CloseSpec /\ Fairness /\ WF_vars(DefaultChannelHandler)

\* ------------------------------------------------------ command traffic
\* A consumer is registered on an open channel:
\* invoke_command_async!(command_tx, RegisterConsumer(channel, tag, tx)).
\* A channel may do so any number of times.
RegisterConsumer(c) ==
  /\ cPc[c] = "ready"
  /\ SendCommand(c, "RegisterConsumer", "awaitConsumerAck")
  /\ UNCHANGED <<hsVars, taskVars, readerVars, callsStarted, replies,
                 registered, outgoing, replySlot, closeRx, writerVars,
                 timeVars>>
  /\ UNCHANGED extVars

\* invoke_command_async! after the ack of RegisterConsumer.
ConsumerRegistered(c) ==
  /\ cPc[c] = "awaitConsumerAck"
  /\ ackSlot[c] # "none"
  /\ IF ackSlot[c] = "acked"
       THEN /\ cPc' = [cPc EXCEPT ![c] = "ready"]
            /\ UNCHANGED errors
       ELSE CallFails(c)
  /\ ackSlot' = [ackSlot EXCEPT ![c] = "none"]
  /\ UNCHANGED <<hsVars, taskVars, readerVars, callsStarted, replies,
                 registered, commandQ, outgoing, replySlot, closeRx,
                 writerVars, timeVars>>
  /\ UNCHANGED extVars

Consumer ==
  \E c \in ChannelIds :
    \/ RegisterConsumer(c)
    \/ ConsumerRegistered(c)

TrafficNext ==
  \/ Next
  \/ Consumer

\* A connection whose heartbeat_interval is longer than a second, so that
\* commands can arrive at shorter intervals; the broker answers Channel.Open
\* and then sends nothing.
TrafficInit == Opened({MaxHeartbeat + 1}, 1)

TrafficSpec == TrafficInit /\ [][TrafficNext]_vars

\* select! takes one of the ready branches at random: the timer branch is
\* taken if it is ready again and again.
TrafficFairSpec ==
  /\ TrafficSpec
  /\ Fairness
  /\ WF_vars(Consumer)
  /\ SF_vars(ReaderTimeout)

\* ------------------------------------- spawn_connection_handlers, by step
\* Connection::open has returned from handshake with Ok and is about to call
\* spawn_connection_handlers.
SpawnInit ==
  /\ arguments \in
       {[max_channels |-> MaxArg, max_frame_size |-> MaxArg,
         heartbeat_interval |-> h] : h \in 0..MaxHeartbeat}
  /\ hsPc = "handshakeOk"
  /\ hsTrace = CompletedHandshake
  /\ srvTune = TuneOkMethod
  /\ tuneOkSent = TuneOkMethod
  /\ openResult = "pending"
  /\ hsStage = "none"
  /\ readerPc = "unspawned"
  /\ writerPc = "unspawned"
  /\ MailboxesCreated
  /\ rTimer = 0
  /\ wTimer = 0
  /\ codec = NoCodec

\* spawn_connection_handlers up to the first tokio::spawn: the default
\* channel is opened with close_tx.clone() and registered, the reader's
\* close_rx is subscribed, and the reader task is spawned.
SpawnReader ==
  /\ hsPc = "handshakeOk"
  /\ hsPc' = "readerSpawned"
  /\ readerPc' = "running"
  /\ channels' = {0}
  /\ closeRx' = [closeRx EXCEPT !["reader"] = 0]
  /\ rTimer' = TimeoutDelay
  /\ UNCHANGED <<arguments, hsTrace, srvTune, tuneOkSent, openResult, hsStage,
                 writerPc, readerFault, livenessClose, responders,
                 pending_frames, delivered, contentLog, lostReply, srvLeft,
                 callerVars, commandQ, ackSlot, outgoing, replySlot,
                 writerVars, wTimer, silence, sinceWrite>>
  /\ UNCHANGED extVars

\* The rest of spawn_connection_handlers: let mut close_rx =
\* self.close_tx.subscribe(); tokio::spawn(writer task); then open returns
\* Ok(connection).  A new subscription holds no value sent before it.
SpawnWriter ==
  /\ hsPc = "readerSpawned"
  /\ hsPc' = "spawned"
  /\ openResult' = "ok"
  /\ writerPc' = "running"
  /\ closeRx' = [closeRx EXCEPT !["writer"] = 0]
  /\ wTimer' = HeartbeatDelay
  /\ UNCHANGED <<arguments, hsTrace, srvTune, tuneOkSent, hsStage, readerPc,
                 readerVars, callerVars, commandQ, ackSlot, outgoing,
                 replySlot, writerVars, rTimer, silence, sinceWrite>>
  /\ UNCHANGED extVars

\* The steps of spawn_connection_handlers, the tasks it has spawned so far,
\* the default channel's handler, the callers of the opened connection, and
\* time.
SpawnNext ==
  \/ SpawnReader
  \/ SpawnWriter
  \/ Reader
  \/ ReaderChannelZero
  \/ DefaultChannelHandler
  \/ Writer
  \/ Caller
  \/ Tick

SpawnSpec == SpawnInit /\ [][SpawnNext]_vars

\* ----------------------------------------------------------- socket faults
\* Ok((channel, frame)) = reader.next_frame() with an Err: the pattern does
\* not match, select! disables the branch and goes on waiting for the other
\* three; nothing is published.  A failed socket yields no further frame.
ReaderReadFails ==
  /\ readerPc = "running"
  /\ ioFault = "none"
  /\ ioFault' = "read"
  /\ srvLeft' = 0
  /\ UNCHANGED <<hsVars, taskVars, readerFault, livenessClose, channels,
                 responders, pending_frames, delivered, contentLog, lostReply,
                 callerVars, mailboxVars, writerVars, timeVars>>
  /\ UNCHANGED <<closeVars, replaced, otherLog, channelMailbox, codec>>

\* writer.dispatch(..).await.unwrap() with an Err, in the outgoing branch or
\* in the heartbeat branch: the writer task panics; outgoing_rx and close_rx
\* are dropped with it, nothing is published.
WriterWriteFails ==
  /\ writerPc = "running"
  /\ ioFault = "none"
  /\ outgoing # <<>> \/ wTimer = 0
  /\ ioFault' = "write"
  /\ writerPc' = "panicked"
  /\ closeRx' = [closeRx EXCEPT !["writer"] = 0]
  /\ outgoing' = <<>>
  /\ unwritten' = TRUE
  /\ UNCHANGED <<hsVars, readerPc, readerVars, callerVars, commandQ, ackSlot,
                 replySlot, writerVars, timeVars>>
  /\ UNCHANGED <<closeResult, srvCloseOk, defaultMailbox, handlerClose,
                 replaced, otherLog, channelMailbox, codec>>

\* The caller of the responder on this channel still holds the receiver.
CallerWaits(c) ==
  cPc[c] \in {"awaitOpenResponderAck", "awaitResponderAck", "awaitReply"}

\* Frame::ChannelOpenOk(..) | .. =>
\*   channel_manager.get_responder(channel).send(frame).unwrap()
\* for a reply the broker sends on a channel that has no request on the
\* socket: with no responder there is no sender to hand back, and with a
\* responder whose caller has gone the send is an Err; either way the task
\* panics.
ReaderUnsolicitedReply ==
  /\ FrameArrives
  /\ \E channel \in ChannelIds \ srvOwed :
       IF channel \in responders /\ CallerWaits(channel)
         THEN /\ responders' = responders \ {channel}
              /\ replySlot' = [replySlot EXCEPT ![channel] = "frame"]
              /\ UNCHANGED <<readerPc, readerFault, commandQ, ackSlot,
                             channels, pending_frames, closeRx, lostReply>>
         ELSE /\ lostReply' = TRUE
              /\ ReaderTaskEnds("panicked",
                                IF channel \in responders
                                  THEN "responder_send" ELSE "get_responder")
  /\ UNCHANGED <<hsVars, writerPc, livenessClose, delivered, contentLog,
                 callerVars, outgoing, writerVars, wTimer, sinceWrite>>
  /\ UNCHANGED extVars

FaultNext ==
  \/ CloseNext
  \/ ReaderReadFails
  \/ WriterWriteFails
  \/ ReaderUnsolicitedReply

FaultSpec == CloseInit /\ [][FaultNext]_vars

\* close_tx.send(()) has happened, from the reader or the default channel.
ClosePublished == livenessClose \/ handlerClose

\* ------------------------------------------- amqp_method (amqp-macros)
FIELD_ANNOTATION_WHITELIST ==
  {"byte", "bool", "short", "ushort", "int", "uint", "long", "ulong", "float",
   "double", "short_str", "long_str", "prop_table"}

\* amqp_ty of a field without an attribute.
NoAnnotation == "None"

\* The annotations fields are declared with here: three of the whitelist, an
\* attribute outside it, and none.
Annotations == {"byte", "short", "uint", "table", NoAnnotation}

\* MethodItem.fields: the fields in declaration order, each with its ident
\* (its position) and amqp_ty.
MethodItems ==
  UNION {[1..n -> Annotations] : n \in 0..MaxFields}

MethodItemField(method, i) == [ident |-> i, amqp_ty |-> method[i]]

\* Values of a field, by annotation: u8, i16 and u32.
FieldValues(ty) ==
  CASE ty = "byte" -> {0, 255}
    [] ty = "short" -> {-1, 258}
    [] ty = "uint" -> {7, 16909060}
    [] OTHER -> {}

\* Encode::write_byte, write_short, write_uint: one octet; two octets,
\* big-endian two's complement; four octets, big-endian.
Write(ty, v) ==
  CASE ty = "byte" -> <<v>>
    [] ty = "short" -> <<((v + 65536) % 65536) \div 256, (v + 65536) % 256>>
    [] ty = "uint" ->
         <<v \div 16777216, (v \div 65536) % 256, (v \div 256) % 256,
           v % 256>>

ReadError == [ok |-> FALSE, value |-> 0, rest |-> <<>>]

\* Decode::read_byte, read_short, read_uint on the cursor: the value
\* and the octets after it, or an error when the data runs out.
Read(ty, data) ==
  CASE ty = "byte" ->
         IF Len(data) < 1 THEN ReadError
         ELSE [ok |-> TRUE, value |-> data[1], rest |-> Tail(data)]
    [] ty = "short" ->
         IF Len(data) < 2 THEN ReadError
         ELSE [ok |-> TRUE,
               value |-> IF data[1] * 256 + data[2] >= 32768
                           THEN data[1] * 256 + data[2] - 65536
                           ELSE data[1] * 256 + data[2],
               rest |-> SubSeq(data, 3, Len(data))]
    [] ty = "uint" ->
         IF Len(data) < 4 THEN ReadError
         ELSE [ok |-> TRUE,
               value |-> data[1] * 16777216 + data[2] * 65536
                           + data[3] * 256 + data[4],
               rest |-> SubSeq(data, 5, Len(data))]

\* generate_field_to_byte: Encode::write_<amqp_ty>(&mut data, self.<ident>)?
\* or a compile error for a missing or unsupported annotation.
generate_field_to_byte(field) ==
  IF field.amqp_ty # NoAnnotation
     /\ field.amqp_ty \in FIELD_ANNOTATION_WHITELIST
    THEN [ok |-> TRUE, call |-> "write", ty |-> field.amqp_ty,
          ident |-> field.ident]
    ELSE [ok |-> FALSE, call |-> "compile_error", ty |-> field.amqp_ty,
          ident |-> field.ident]

\* generate_field_from_byte: let <ident> = Decode::read_<amqp_ty>(&mut data)?
generate_field_from_byte(field) ==
  IF field.amqp_ty # NoAnnotation
     /\ field.amqp_ty \in FIELD_ANNOTATION_WHITELIST
    THEN [ok |-> TRUE, call |-> "read", ty |-> field.amqp_ty,
          ident |-> field.ident]
    ELSE [ok |-> FALSE, call |-> "compile_error", ty |-> field.amqp_ty,
          ident |-> field.ident]

\* generate_into_byte_vec_trait_impl: method.fields.iter().map(..), so one
\* statement per field, in declaration order.
generate_into_byte_vec_trait_impl(method) ==
  [i \in 1..Len(method) |-> generate_field_to_byte(MethodItemField(method, i))]

FromByteVecReversed(method) ==
  [i \in 1..Len(method) |->
     generate_field_from_byte(
       MethodItemField(method, Len(method) + 1 - i))]

\* generate_from_byte_vec_trait_impl: one statement per field, in
\* declaration order; Self { .. } names every field.
generate_from_byte_vec_trait_impl(method) ==
  [i \in 1..Len(method) |->
     generate_field_from_byte(MethodItemField(method, i))]

\* The expansion compiles when no statement is a compile error.
Compiles(method) ==
  /\ \A i \in 1..Len(method) :
       generate_into_byte_vec_trait_impl(method)[i].ok
  /\ \A i \in 1..Len(method) :
       generate_from_byte_vec_trait_impl(method)[i].ok

\* Values of a record of the generated struct, one per field.
Records(method) ==
  {r \in [1..Len(method) -> UNION {FieldValues(t) : t \in Annotations}] :
     \A i \in 1..Len(method) : r[i] \in FieldValues(method[i])}

RECURSIVE RunInto(_, _, _)
\* try_into: let mut data = vec![]; the statements in order; Ok(data)
RunInto(stmts, self, data) ==
  IF stmts = <<>> THEN data
  ELSE RunInto(Tail(stmts), self,
               data \o Write(Head(stmts).ty, self[Head(stmts).ident]))

TryInto(method, self) ==
  RunInto(generate_into_byte_vec_trait_impl(method), self, <<>>)

RECURSIVE RunFrom(_, _, _)
\* try_from: a cursor over data; the statements in order, each binding its
\* ident or returning the error (?); Ok(Self { .. })
RunFrom(stmts, data, bound) ==
  IF stmts = <<>> THEN [ok |-> TRUE, value |-> bound]
  ELSE IF ~Read(Head(stmts).ty, data).ok THEN [ok |-> FALSE, value |-> <<>>]
  ELSE RunFrom(Tail(stmts), Read(Head(stmts).ty, data).rest,
               bound @@ (Head(stmts).ident :> Read(Head(stmts).ty, data).value))

TryFrom(method, data) ==
  RunFrom(generate_from_byte_vec_trait_impl(method), data, <<>>)

\* A struct is declared under #[amqp_method]; no connection is involved.
CodecInit ==
  /\ codec \in
       {[pc |-> "declared", fields |-> m, record |-> <<>>, data |-> <<>>,
         decoded |-> <<>>] : m \in MethodItems}
  /\ arguments =
       [max_channels |-> 0, max_frame_size |-> 0, heartbeat_interval |-> 0]
  /\ hsPc = "writeHeader"
  /\ hsTrace = <<>>
  /\ srvTune = NoTune
  /\ tuneOkSent = NoTune
  /\ openResult = "pending"
  /\ hsStage = "none"
  /\ readerPc = "unspawned"
  /\ writerPc = "unspawned"
  /\ MailboxesCreated
  /\ rTimer = 0
  /\ wTimer = 0

\* amqp_method: the struct and both impls, or compile errors.
AmqpMethod ==
  /\ codec.pc = "declared"
  /\ codec' =
       [codec EXCEPT
          !.pc = IF Compiles(codec.fields) THEN "generated"
                 ELSE "compile_error"]
  /\ UNCHANGED <<hsVars, taskVars, readerVars, callerVars, mailboxVars,
                 writerVars, timeVars, closeVars, routeVars>>

\* A record of the generated struct is encoded: record.try_into()
EncodeRecord ==
  /\ codec.pc = "generated"
  /\ \E self \in Records(codec.fields) :
       codec' =
         [codec EXCEPT !.pc = "encoded", !.record = self,
                       !.data = TryInto(codec.fields, self)]
  /\ UNCHANGED <<hsVars, taskVars, readerVars, callerVars, mailboxVars,
                 writerVars, timeVars, closeVars, routeVars>>

\* The encoding is decoded: Self::try_from(data)
DecodeRecord ==
  /\ codec.pc = "encoded"
  /\ codec' =
       [codec EXCEPT !.pc = "decoded",
                     !.decoded = TryFrom(codec.fields, codec.data)]
  /\ UNCHANGED <<hsVars, taskVars, readerVars, callerVars, mailboxVars,
                 writerVars, timeVars, closeVars, routeVars>>

CodecNext ==
  \/ AmqpMethod
  \/ EncodeRecord
  \/ DecodeRecord

CodecSpec == CodecInit /\ [][CodecNext]_vars

\* -------------------------------------------------------------- properties
RequestQueued(c) ==
  \E i \in 1..Len(outgoing) :
    outgoing[i].channel = c /\ outgoing[i].frame \in Requests

\* C1: the reader has applied and acknowledged RegisterResponder before the
\* call's request frame is enqueued, and so before the writer writes it; the
\* channel is registered before Channel.Open is enqueued; and a reply that
\* reaches the reader finds its responder installed.
C1_ResponderBeforeRequest ==
  /\ \A c \in ChannelIds :
       /\ RequestQueued(c) => registered[c]
       /\ c \in srvOwed => registered[c]
       /\ (c \in srvOwed /\ readerPc = "running") => c \in responders
       /\ (readerPc = "running"
           /\ \E i \in 1..Len(outgoing) :
                outgoing[i] = [channel |-> c, frame |-> "ChannelOpen"])
          => c \in channels
  /\ ~lostReply

\* C1 witness: a request is on the socket, its reply still to come, with the
\* channel and the responder registered.
C1_Witness ==
  \E c \in srvOwed :
    c \in responders /\ c \in channels /\ lastWrite.channel = c

CallInProgress(c) ==
  IF cPc[c] \in {"awaitChannelAck", "awaitOpenResponderAck",
                 "awaitResponderAck", "awaitReply"}
    THEN 1 ELSE 0

\* C2: every synchronous call that has returned returned one reply or one
\* error, and a call waiting on its responder when close is published, or
\* when the reader task has ended, returns.
C2_ExactlyOneOutcome ==
  /\ [](\A c \in ChannelIds :
          replies[c] + errors[c] + CallInProgress(c) = callsStarted[c])
  /\ \A c \in ChannelIds :
       (cPc[c] = "awaitReply"
        /\ (readerPc # "running" \/ closeRx["reader"] > 0))
         ~> (cPc[c] \in {"ready", "failed"})

\* C2 witness: a call is waiting on a responder that the ended reader task
\* dropped.
C2_Witness ==
  \E c \in ChannelIds :
    /\ cPc[c] = "awaitReply"
    /\ replySlot[c] = "closed"
    /\ readerPc # "running"

\* C3: after Basic.Deliver and a Content-Header with body_size n > 0 on a
\* channel, nothing is dispatched while the bodies ingested are shorter than
\* n, and when they reach n exactly one dispatch has happened, with the
\* bodies concatenated in arrival order, and no assembly stays pending.
C3_DispatchOnceWhenComplete ==
  \A c \in ChannelIds :
    LET log == contentLog[c] IN
    (log.deliver /\ log.header > 0) =>
      /\ Len(log.bytes) < log.header =>
           /\ log.dispatches = 0
           /\ readerPc = "running" =>
                pending_frames[c] =
                  [state |-> "WithHeader", size |-> log.header,
                   body |-> log.bytes]
      /\ Len(log.bytes) = log.header =>
           /\ log.dispatches = 1
           /\ delivered[c] # <<>>
           /\ delivered[c][Len(delivered[c])] = log.bytes
           /\ pending_frames[c] = NoAssembly

\* C3 witness: a message of two body frames was dispatched.
C3_Witness ==
  \E c \in ChannelIds :
    /\ contentLog[c].header = 2
    /\ contentLog[c].bodies = 2
    /\ contentLog[c].dispatches = 1
    /\ delivered[c] = << <<"a", "b">> >>

\* C4: a Content-Header with body_size 0 completes the assembly at the header
\* step: it is dispatched with an empty body and is no longer pending.
C4_ZeroSizeCompletesAtHeader ==
  \A c \in ChannelIds :
    (contentLog[c].deliver /\ contentLog[c].header = 0) =>
      /\ contentLog[c].dispatches = 1
      /\ pending_frames[c] = NoAssembly

C5Order ==
  <<Ev("write", "ProtocolHeader"), Ev("read", "ConnectionStart"),
    Ev("write", "ConnectionStartOk"), Ev("read", "ConnectionTune"),
    Ev("write", "ConnectionTuneOk"), Ev("write", "ConnectionOpen"),
    Ev("read", "ConnectionOpenOk")>>

\* C5: the socket operations of open are, in this order, write protocol
\* header, read Start, write Start-Ok, read Tune, write Tune-Ok, write Open,
\* read Open-Ok: every operation done so far is the next one of that order (a
\* read may bring another frame, and then it is the last operation), and the
\* loops run, and open has returned the connection, only after all seven.
C5_HandshakeOrder ==
  /\ Len(hsTrace) <= Len(C5Order)
  /\ \A i \in 1..Len(hsTrace) :
       /\ hsTrace[i].op = C5Order[i].op
       /\ hsTrace[i].op = "write" => hsTrace[i] = C5Order[i]
       /\ i < Len(hsTrace) => hsTrace[i] = C5Order[i]
  /\ (readerPc # "unspawned" \/ writerPc # "unspawned" \/ openResult = "ok")
       => /\ hsTrace = C5Order
          /\ readerPc # "unspawned"
          /\ writerPc # "unspawned"
          /\ openResult = "ok"

\* C5 witness: open returned the connection with both loops spawned.
C5_Witness ==
  /\ openResult = "ok"
  /\ readerPc = "running"
  /\ writerPc = "running"
  /\ hsTrace = C5Order

C6Expected(i) ==
  CASE i = 2 -> "ConnectionStart"
    [] i = 4 -> "ConnectionTune"
    [] i = 7 -> "ConnectionOpenOk"
    [] OTHER -> "none"

C6Stage(i) ==
  CASE i = 2 -> "Start"
    [] i = 4 -> "Tune"
    [] i = 7 -> "OpenOk"
    [] OTHER -> "none"

C7Negotiated(server, client) ==
  IF server = 0 THEN client
  ELSE IF client = 0 THEN server
  ELSE IF server < client THEN server ELSE client

\* C7: each value written in Connection.Tune-Ok, and the heartbeat interval
\* the loops use, is the minimum of the broker's Tune value and the client's
\* configured value, 0 meaning unlimited.
C7_TuneOkIsMinimum ==
  tuneOkSent # NoTune =>
    /\ tuneOkSent.chan_max =
         C7Negotiated(srvTune.chan_max, arguments.max_channels)
    /\ tuneOkSent.frame_max =
         C7Negotiated(srvTune.frame_max, arguments.max_frame_size)
    /\ tuneOkSent.heartbeat =
         C7Negotiated(srvTune.heartbeat, arguments.heartbeat_interval)
    /\ readerPc = "running" =>
         rTimer = C7Negotiated(srvTune.heartbeat, arguments.heartbeat_interval)

C9_WriterNeverIdleLonger ==
  (heartbeat_interval > 0 /\ writerPc = "running")
    => sinceWrite <= heartbeat_interval

\* C9 witness: a heartbeat was emitted, later a data frame was written, and
\* a full interval has passed since with the writer still running.
C9_Witness ==
  /\ heartbeat_interval > 0
  /\ writerPc = "running"
  /\ heartbeatsSent
  /\ lastWrite.frame \in Requests
  /\ sinceWrite = heartbeat_interval

\* C10: with heartbeat_interval = 0 the writer emits no Heartbeat frame and
\* the reader does not publish close for lack of inbound traffic.
C10_ZeroDisablesHeartbeat ==
  heartbeat_interval = 0 => (~heartbeatsSent /\ ~livenessClose)

CloseFrame == [channel |-> 0, frame |-> "ConnectionClose"]

C12_CloseReturnsAfterDrain ==
  closeResult = "ok"
    => /\ readerPc # "running"
       /\ writerPc # "running"
       /\ outgoing = <<>>
       /\ ~unwritten

\* C13: whenever a socket read fails in the reader or a socket write fails
\* in the writer, the close broadcast is published and no task is left
\* panicked beside a running one: the failure itself closes the connection.
C13_IoFailureClosesConnection ==
  ioFault # "none"
    => /\ ClosePublished
       /\ writerPc # "panicked"
       /\ readerPc # "panicked"

\* C14: a reply that finds no responder, or a responder whose caller has
\* stopped waiting, is reported as UnexpectedReply: the reader does not
\* panic, the close broadcast is published, and a writer still running has
\* the close value to receive.
C14_UnexpectedReplyClosesConnection ==
  lostReply
    => /\ readerPc # "panicked"
       /\ ClosePublished
       /\ writerPc = "running" => closeRx["writer"] > 0

\* C15: method frames that have no arm of their own, received on a non-zero
\* channel, are all routed to that channel's mailbox in the order received,
\* and the reader goes on running.
C15_OtherFramesRoutedInOrder ==
  /\ \A c \in ChannelIds : channelMailbox[c] = otherLog[c]
  /\ readerFault # "todo"

\* C16: for every method record generated by amqp_method, decoding the
\* encoding gives the record back; the encoder has one write_<amqp-type>
\* statement per field in declaration order, and the decoder one
\* read_<amqp-type> statement per field in the same order.
C16_CodecRoundTrip ==
  /\ codec.pc = "decoded"
       => codec.decoded = [ok |-> TRUE, value |-> codec.record]
  /\ codec.pc \in {"generated", "encoded", "decoded"}
       => \A i \in 1..Len(codec.fields) :
            /\ generate_into_byte_vec_trait_impl(codec.fields)[i] =
                 [ok |-> TRUE, call |-> "write", ty |-> codec.fields[i],
                  ident |-> i]
            /\ generate_from_byte_vec_trait_impl(codec.fields)[i] =
                 [ok |-> TRUE, call |-> "read", ty |-> codec.fields[i],
                  ident |-> i]

C16_Witness ==
  /\ codec.pc = "decoded"
  /\ codec.fields = <<"uint", "short">>
  /\ codec.record = <<16909060, -1>>
  /\ codec.data = <<1, 2, 3, 4, 255, 255>>
  /\ codec.decoded.ok

\* C17: each channel has at most one content assembly in flight, and an
\* assembly in flight is never lost: no Basic.Deliver has overwritten an
\* assembly that was still incomplete.
C17_AssemblyNotLost ==
  \A c \in ChannelIds :
    /\ pending_frames[c].state \in {"None", "WithMethod", "WithHeader"}
    /\ ~replaced[c]

\* C18: a Content-Header or Content-Body that finds no pending assembly on
\* its channel is reported as a protocol violation: the reader task does not
\* panic, the close broadcast is published, and a writer still running has
\* the close value to receive.
C18_OrphanContentIsReported ==
  readerFault = "unwrap_pending_frame"
    => /\ readerPc # "panicked"
       /\ ClosePublished
       /\ writerPc = "running" => closeRx["writer"] > 0

\* C19: API traffic cannot postpone the reader's liveness check for ever:
\* once the broker has been silent for more than 2 * heartbeat_interval
\* seconds the reader publishes close (or has ended), whatever commands
\* keep arriving.
C19_LivenessCheckNotPostponed ==
  (readerPc = "running" /\ heartbeat_interval > 0 /\ srvLeft = 0
   /\ LivenessLost)
    ~> (livenessClose \/ readerPc # "running")

\* C20: no close broadcast is missed by either loop: once close has been
\* published, a loop that is running (or is started later) holds a close
\* value it has yet to receive, however often close was published.
C20_NoCloseMissed ==
  ClosePublished
    => /\ readerPc = "running" => closeRx["reader"] > 0
       /\ writerPc = "running" => closeRx["writer"] > 0
       /\ hsPc # "readerSpawned"
====
